---- MODULE Spec2Model ----
(***************************************************************************)
(* Model of util/utils.py: DetectionUtils (label -> color cache, bounding  *)
(* box drawing) and SegmentationUtils (category mask -> RGB image, legend  *)
(* compositing).                                                           *)
(*                                                                         *)
(* Three specifications share the variables:                               *)
(*   Spec        SegmentationUtils: segmentation_map_to_image, visualize   *)
(*   SpecDet     DetectionUtils called from one thread                     *)
(*   SpecThreads DetectionUtils.get_color_for_label called from threads    *)
(***************************************************************************)
EXTENDS Integers, Sequences, FiniteSets, TLC

\* ------------------------------------------------------------------ bounds

\* generate_random_color() yields one of NumColors colors.
NumColors == 2
\* Each thread calls get_color_for_label at most MaxCalls times.
MaxCalls == 2
\* draw_bounding_boxes gets at most MaxDetections detections.
MaxDetections == 2
\* A segmentation result has at most MaxPixels pixels (width * height).
MaxPixels == 4
\* Length of segmentation.colored_labels; mask values range over
\* 0 .. NumColoredLabels, so exactly one value has no colored label.
NumColoredLabels == 3

\* ------------------------------------------------------- program constants

_LEGEND_ROW_SIZE == 20
_LEGEND_RECT_SIZE == 16
_LABEL_MARGIN == 10
_FPS_LEFT_MARGIN == 24
_PADDING_WIDTH_FOR_LEGEND == 150
_LEGEND_FONT_THICKNESS == 1
\* number of values of a np.uint8
UInt8Range == 256

_LEGEND_TEXT_COLOR == <<0, 0, 255>>
_LEGEND_BACKGROUND_COLOR == <<255, 255, 255>>

VARIABLES
    \* --- SegmentationUtils
    segmentation,          \* the SegmentationResult handed to segmentation_map_to_image
    seg_status,            \* "none" | "returned" | "IndexError"
    sorted_label_indices,  \* local of segmentation_map_to_image (line 117)
    found_colored_labels,  \* second component of its return value
    seg_map_img,           \* first component of its return value
    vis_call,              \* arguments of the last visualize call
    vis_result,            \* its outcome
    \* --- DetectionUtils
    label_colors,          \* DetectionUtils.label_colors (line 15)
    image,                 \* the image draw_bounding_boxes draws on
    det_call,              \* the last DetectionUtils call and what it returned
    seen,                  \* history: labels passed to get_color_for_label so far
    first_color,           \* history: the color assigned to a label the first time
    \* --- threads running get_color_for_label
    pc,                    \* per thread: the line of get_color_for_label it is at
    t_label,               \* per thread: the argument label
    t_color,               \* per thread: the value generate_random_color() returned
    t_calls,               \* per thread: calls started so far
    t_returned,            \* history: <<label, color>> pairs returned so far
    t_generated            \* history: per thread and label, colors generated so far

segVars == <<segmentation, seg_status, sorted_label_indices, found_colored_labels,
             seg_map_img, vis_call, vis_result>>
detVars == <<label_colors, image, det_call, seen, first_color>>
thrVars == <<pc, t_label, t_color, t_calls, t_returned, t_generated>>
vars == <<segVars, detVars, thrVars>>

\* ------------------------------------------------------------ Python lists

\* lst[idx] of a Python list (0-based); the caller checks the range.
At(lst, idx) == lst[idx + 1]

\* ----------------------------------------------------------------- inputs

\* colored_labels[i].color: distinct 8-bit colors, (10,20,30) for category 0.
LabelColor(i) == <<10 + i, 20 + i, 30 + i>>

ColoredLabel(i) == [category_name |-> <<"category", i>>, color |-> LabelColor(i)]

ColoredLabels == [k \in 1..NumColoredLabels |-> ColoredLabel(k - 1)]

MaxCategory == NumColoredLabels

\* (width, height) pairs with at most MaxPixels pixels.
Dims == {d \in (1..MaxPixels) \X (1..MaxPixels) : d[1] * d[2] <= MaxPixels}

SegmentationResults ==
    UNION {
        { [category_mask |-> m, width |-> d[1], height |-> d[2],
           colored_labels |-> ColoredLabels] :
          m \in [1..(d[1] * d[2]) -> 0..MaxCategory] }
        : d \in Dims }

NoImage == [shape |-> <<>>, data |-> <<>>]
NoCall == [op |-> "none"]

\* --------------------------------------------- segmentation_map_to_image

\* np.frombuffer(category_mask, dtype=np.uint8): one unsigned byte per pixel.
frombuffer(category_mask) ==
    [p \in 1..Len(category_mask) |-> category_mask[p] % UInt8Range]

Min(S) == CHOOSE x \in S : \A y \in S : x <= y

RECURSIVE Ascending(_)
Ascending(S) ==
    IF S = {} THEN <<>>
    ELSE LET m == Min(S) IN <<m>> \o Ascending(S \ {m})

\* np.unique(masks): the distinct values in ascending order.
found_label_indices(masks) == Ascending({masks[p] : p \in 1..Len(masks)})

\* return_inverse: the 0-based position in the unique array of each element.
inverse_map(masks) ==
    LET found == found_label_indices(masks) IN
    [p \in 1..Len(masks) |->
        (CHOOSE k \in 1..Len(found) : found[k] = masks[p]) - 1]

\* return_counts zipped into count_dict (line 113).
count_dict(masks) ==
    [v \in {masks[p] : p \in 1..Len(masks)} |->
        Cardinality({p \in 1..Len(masks) : masks[p] = v})]

\* Mutant of InsertPos: an equal key goes before the elements already placed
\* (an unstable descending sort).
InsertPos_Unstable(out, x, key) ==
    Cardinality({k \in 1..Len(out) : key[out[k]] > key[x]}) + 1

\* Mutant of InsertPos: ascending order (reverse=True forgotten).
InsertPos_Ascending(out, x, key) ==
    Cardinality({k \in 1..Len(out) : key[out[k]] <= key[x]}) + 1

\* Position at which insertion keeps the list in descending key order and the
\* new element after every element whose key is not smaller (stability).
InsertPos(out, x, key) ==
    Cardinality({k \in 1..Len(out) : key[out[k]] >= key[x]}) + 1

InsertAt(out, pos, x) ==
    SubSeq(out, 1, pos - 1) \o <<x>> \o SubSeq(out, pos, Len(out))

RECURSIVE SortedFrom(_, _, _)
SortedFrom(lst, n, key) ==
    IF n = 0 THEN <<>>
    ELSE LET out == SortedFrom(lst, n - 1, key)
         IN InsertAt(out, InsertPos(out, lst[n], key), lst[n])

\* sorted(lst, key=lambda index: key[index], reverse=True): Python's sort is
\* stable, also with reverse=True.
sorted_desc(lst, key) == SortedFrom(lst, Len(lst), key)

\* Mutant of IndexInRange: off by one, the last entry counts as out of range.
IndexInRange_OffByOne(lst, idx) == idx < Len(lst) - 1

\* [segmentation.colored_labels[idx] for idx in sorted_label_indices] raises
\* IndexError at the first idx that is not below len(colored_labels).
IndexInRange(lst, idx) == idx < Len(lst)

\* .astype(np.uint8) of one color.
astype_uint8(color) == [c \in 1..Len(color) |-> color[c] % UInt8Range]

\* np.array(found_colors)[inverse_map]: gather, flat pixel order.
Gather(found_colors, inv) == [p \in 1..Len(inv) |-> At(found_colors, inv[p])]

output_shape(seg) == <<seg.width, seg.height, 3>>

\* The whole function: the outcome, and the locals the claims speak about.
segmentation_map_to_image_result(seg) ==
    LET masks  == frombuffer(seg.category_mask)
        found  == found_label_indices(masks)
        sorted == sorted_desc(found, count_dict(masks))
    IN  IF \E k \in 1..Len(sorted) : ~IndexInRange(seg.colored_labels, sorted[k])
        THEN [status |-> "IndexError", sorted |-> sorted, labels |-> <<>>,
              img |-> [shape |-> <<>>, data |-> <<>>]]
        ELSE LET labels == [k \in 1..Len(sorted) |-> At(seg.colored_labels, sorted[k])]
                 found_colors == [k \in 1..Len(labels) |-> labels[k].color]
                 gathered == Gather(found_colors, inverse_map(masks))
             IN [status |-> "returned", sorted |-> sorted, labels |-> labels,
                 img |-> [shape |-> output_shape(seg),
                          data |-> [p \in 1..Len(gathered) |-> astype_uint8(gathered[p])]]]

segmentation_map_to_image ==
    /\ seg_status = "none"
    /\ LET r == segmentation_map_to_image_result(segmentation) IN
        /\ seg_status' = r.status
        /\ sorted_label_indices' = r.sorted
        /\ found_colored_labels' = r.labels
        /\ seg_map_img' = r.img
    /\ UNCHANGED <<segmentation, vis_call, vis_result, detVars, thrVars>>

\* ------------------------------------------------------------- visualize
\* cv2 images are modelled by their shape <<rows, cols, channels>> and by the
\* list of drawing calls applied to them, in call order.

DisplayModes == {"overlay", "side-by-side", "bogus"}

\* fps values in tenths of a frame per second (0.0 and 29.9).
FpsTenths == {0, 299}

\* int(fps) for a non-negative fps given in tenths: truncation.
int_fps(fps) == fps \div 10

\* [height, width, 3] shapes of the input image.
InputShapes == {<<d[2], d[1], 3>> : d \in Dims}

\* cv2.addWeighted(src1, alpha, src2, beta, 0): both arrays of the same size.
addWeighted(shape1, shape2) ==
    IF shape1 = shape2
    THEN [status |-> "ok", shape |-> shape1, message |-> <<>>]
    ELSE [status |-> "cv2.error", shape |-> <<>>, message |-> <<"addWeighted">>]

\* cv2.hconcat([a, b]): same number of rows and channels, columns add up.
hconcat(shape1, shape2) ==
    IF shape1[1] = shape2[1] /\ shape1[3] = shape2[3]
    THEN [status |-> "ok", shape |-> <<shape1[1], shape1[2] + shape2[2], shape1[3]>>,
          message |-> <<>>]
    ELSE [status |-> "cv2.error", shape |-> <<>>, message |-> <<"hconcat">>]

\* sys.exit(f"ERROR: Unsupported display mode: {display_mode}.")
sys_exit(display_mode) ==
    [status |-> "SystemExit", shape |-> <<>>,
     message |-> <<"ERROR: Unsupported display mode: ", display_mode, ".">>]

\* Mutant of Composite: an unknown mode falls back to overlay.
Composite_Fallback(input_shape, seg_shape, display_mode) ==
    IF display_mode = "side-by-side"
    THEN hconcat(input_shape, seg_shape)
    ELSE addWeighted(input_shape, seg_shape)

\* Lines 157-170: the if / elif / else on display_mode.
Composite(input_shape, seg_shape, display_mode) ==
    IF display_mode = "overlay"
    THEN addWeighted(input_shape, seg_shape)
    ELSE IF display_mode = "side-by-side"
         THEN hconcat(input_shape, seg_shape)
         ELSE sys_exit(display_mode)

\* Mutant of copyMakeBorder: the padding goes to the bottom instead of the right.
copyMakeBorder_Bottom(shape, top, bottom, left, right) ==
    <<shape[1] + top + right, shape[2] + left + bottom, shape[3]>>

\* cv2.copyMakeBorder(src, top, bottom, left, right, BORDER_CONSTANT, None, value)
copyMakeBorder(shape, top, bottom, left, right) ==
    <<shape[1] + top + bottom, shape[2] + left + right, shape[3]>>

DrawCall(op, arg, at, color) == [op |-> op, arg |-> arg, at |-> at, color |-> color]

\* Lines 173-186: the FPS text.
FpsText(fps) ==
    DrawCall("putText", <<"FPS = ", int_fps(fps)>>,
             <<_FPS_LEFT_MARGIN, _LEGEND_ROW_SIZE>>, _LEGEND_TEXT_COLOR)

\* Lines 208-240: the k-th pass of the legend loop draws a filled rectangle and
\* the category name; legend_y grows by rect size + margin on each pass.
LegendY(legend_y, k) == legend_y + (k - 1) * (_LEGEND_RECT_SIZE + _LABEL_MARGIN)

LegendRect(colored_label, legend_x, y) ==
    DrawCall("rectangle", -_LEGEND_FONT_THICKNESS,
             <<legend_x, y, legend_x + _LEGEND_RECT_SIZE, y + _LEGEND_RECT_SIZE>>,
             colored_label.color)

LegendName(colored_label, legend_x, y) ==
    DrawCall("putText", colored_label.category_name,
             <<legend_x + _LEGEND_RECT_SIZE + _LABEL_MARGIN, y + _LABEL_MARGIN>>,
             _LEGEND_TEXT_COLOR)

Legend(colored_labels, legend_x, legend_y) ==
    [i \in 1..(2 * Len(colored_labels)) |->
        LET k == (i + 1) \div 2 IN
        IF i % 2 = 1
        THEN LegendRect(colored_labels[k], legend_x, LegendY(legend_y, k))
        ELSE LegendName(colored_labels[k], legend_x, LegendY(legend_y, k))]

\* The whole function: what it returns or how it ends.
visualize_result(input_shape, seg_shape, display_mode, fps, colored_labels) ==
    LET overlay == Composite(input_shape, seg_shape, display_mode) IN
    IF overlay.status # "ok"
    THEN [status |-> overlay.status, message |-> overlay.message,
          shape |-> <<>>, drawn |-> <<>>]
    ELSE LET legend_x == overlay.shape[2] + _LABEL_MARGIN
             legend_y == overlay.shape[1] \div _LEGEND_ROW_SIZE + _LABEL_MARGIN
             border == DrawCall("copyMakeBorder", _PADDING_WIDTH_FOR_LEGEND,
                                <<>>, _LEGEND_BACKGROUND_COLOR)
         IN [status |-> "returned", message |-> <<>>,
             shape |-> copyMakeBorder(overlay.shape, 0, 0, 0, _PADDING_WIDTH_FOR_LEGEND),
             drawn |-> <<FpsText(fps), border>>
                          \o Legend(colored_labels, legend_x, legend_y)]

\* visualize is called on the output of segmentation_map_to_image; a
\* SegmentationResult is consumed once.
visualize ==
    /\ seg_status = "returned"
    /\ vis_call = NoCall
    /\ \E input_shape \in InputShapes, display_mode \in DisplayModes, fps \in FpsTenths :
        /\ vis_call' = [op |-> "visualize", input_shape |-> input_shape,
                        seg_shape |-> seg_map_img.shape,
                        display_mode |-> display_mode, fps |-> fps]
        /\ vis_result' = visualize_result(input_shape, seg_map_img.shape, display_mode,
                                          fps, found_colored_labels)
    /\ UNCHANGED <<segmentation, seg_status, sorted_label_indices,
                   found_colored_labels, seg_map_img, detVars, thrVars>>


DetIdle ==
    /\ label_colors = <<>>
    /\ image = [frame |-> "none", drawn |-> <<>>]
    /\ det_call = NoCall
    /\ seen = {}
    /\ first_color = <<>>

ThrIdle ==
    /\ pc = <<>>
    /\ t_label = <<>>
    /\ t_color = <<>>
    /\ t_calls = <<>>
    /\ t_returned = {}
    /\ t_generated = <<>>

Init ==
    /\ segmentation \in SegmentationResults
    /\ seg_status = "none"
    /\ sorted_label_indices = <<>>
    /\ found_colored_labels = <<>>
    /\ seg_map_img = NoImage
    /\ vis_call = NoCall
    /\ vis_result = NoCall
    /\ DetIdle
    /\ ThrIdle

Next ==
    \/ segmentation_map_to_image
    \/ visualize

Spec == Init /\ [][Next]_vars

\* --------------------------------------------------------- DetectionUtils

Labels == {"person", "car"}

\* generate_random_color(): three random.randint(0, 255) draws; a sample of
\* NumColors distinct outcomes.
Colors == {<<(85 * n) % UInt8Range, (170 * n) % UInt8Range, UInt8Range - n>> :
              n \in 1..NumColors}

\* The image handed to draw_bounding_boxes: a frame (its pixels) and the
\* drawing calls applied to it, in call order.
Frames == {"frame1", "frame2"}

Boxes == {[origin_x |-> 5, origin_y |-> 20, width |-> 4, height |-> 3]}

Detections == [box : Boxes, label : Labels]

DetectionLists == UNION {[1..n -> Detections] : n \in 0..MaxDetections}

\* Mutant of NotCached: the membership test is dropped, every call generates.
NotCached_Always(cache, label) == TRUE

\* Line 38: label not in DetectionUtils.label_colors
NotCached(cache, label) == label \notin DOMAIN cache

\* Line 39: DetectionUtils.label_colors[label] = color
StoreColor(cache, label, color) ==
    [l \in DOMAIN cache \cup {label} |-> IF l = label THEN color ELSE cache[l]]

\* get_color_for_label(label) on cache, where random is the color
\* generate_random_color() yields if it is called: the cache afterwards and
\* the color returned.
get_color_for_label_result(cache, label, random) ==
    LET after == IF NotCached(cache, label)
                 THEN StoreColor(cache, label, random)
                 ELSE cache
    IN [cache |-> after, color |-> after[label], generated |-> after # cache]

\* History: the color a label got the first time it was seen.
RecordFirst(first, label, color) ==
    IF label \in DOMAIN first THEN first
    ELSE [l \in DOMAIN first \cup {label} |-> IF l = label THEN color ELSE first[l]]

get_color_for_label ==
    \E label \in Labels, random \in Colors :
        LET r == get_color_for_label_result(label_colors, label, random) IN
        /\ label_colors' = r.cache
        /\ det_call' = [op |-> "get_color_for_label", label |-> label,
                        color |-> r.color]
        /\ seen' = seen \cup {label}
        /\ first_color' = RecordFirst(first_color, label, r.color)
        /\ UNCHANGED <<image, segVars, thrVars>>

\* Lines 57-63 and 66-74: the rectangle and the label text of one detection.
BoxRect(box, color) ==
    DrawCall("rectangle", 2,
             <<box.origin_x, box.origin_y,
               box.origin_x + box.width, box.origin_y + box.height>>, color)

BoxText(box, label, color) ==
    DrawCall("putText", label, <<box.origin_x, box.origin_y - 10>>, color)

\* The first n passes of the loop of draw_bounding_boxes; randoms[k] is the
\* color generate_random_color() yields in pass k if it is called.
RECURSIVE DrawLoop(_, _, _, _, _, _)
DrawLoop(img, cache, first, detections, randoms, n) ==
    IF n = 0 THEN [image |-> img, cache |-> cache, first |-> first]
    ELSE LET before == DrawLoop(img, cache, first, detections, randoms, n - 1)
             detection == detections[n]
             r == get_color_for_label_result(before.cache, detection.label, randoms[n])
         IN [image |-> [before.image EXCEPT !.drawn =
                            @ \o <<BoxRect(detection.box, r.color),
                                   BoxText(detection.box, detection.label, r.color)>>],
             cache |-> r.cache,
             first |-> RecordFirst(before.first, detection.label, r.color)]

\* Mutant of draw_bounding_boxes_result: a color for a default label is looked
\* up before the loop, whether or not there is a detection.
draw_bounding_boxes_result_Default(img, cache, first, detections, randoms) ==
    LET d == get_color_for_label_result(cache, "person", CHOOSE c \in Colors : TRUE)
    IN DrawLoop(img, d.cache, first, detections, randoms, Len(detections))

draw_bounding_boxes_result(img, cache, first, detections, randoms) ==
    DrawLoop(img, cache, first, detections, randoms, Len(detections))

\* draw_bounding_boxes(image, detections) on a new frame.
draw_bounding_boxes ==
    \E frame \in Frames, detections \in DetectionLists :
        /\ \E randoms \in [1..Len(detections) -> Colors] :
            LET input == [frame |-> frame, drawn |-> <<>>]
                r == draw_bounding_boxes_result(input, label_colors, first_color,
                                                detections, randoms) IN
            /\ image' = r.image
            /\ label_colors' = r.cache
            /\ first_color' = r.first
            /\ seen' = seen \cup {detections[k].label : k \in 1..Len(detections)}
            /\ det_call' = [op |-> "draw_bounding_boxes", input |-> input,
                            detections |-> detections, cache_before |-> label_colors]
        /\ UNCHANGED <<segVars, thrVars>>

SegIdle ==
    /\ segmentation = [category_mask |-> <<>>, width |-> 0, height |-> 0,
                       colored_labels |-> <<>>]
    /\ seg_status = "none"
    /\ sorted_label_indices = <<>>
    /\ found_colored_labels = <<>>
    /\ seg_map_img = NoImage
    /\ vis_call = NoCall
    /\ vis_result = NoCall

InitDet == SegIdle /\ DetIdle /\ ThrIdle

NextDet ==
    \/ get_color_for_label
    \/ draw_bounding_boxes

SpecDet == InitDet /\ [][NextDet]_vars

\* ------------------------------------- get_color_for_label from two threads
\* The interpreter may switch threads between the membership test (line 38),
\* the call of generate_random_color, the store (line 39) and the read of the
\* return statement (line 40).

Threads == {"t1", "t2"}

NoColor == <<>>

InitThreads ==
    /\ SegIdle
    /\ DetIdle
    /\ pc = [t \in Threads |-> "idle"]
    /\ t_label = [t \in Threads |-> "none"]
    /\ t_color = [t \in Threads |-> NoColor]
    /\ t_calls = [t \in Threads |-> 0]
    /\ t_returned = {}
    /\ t_generated = [t \in Threads |-> [l \in Labels |-> 0]]

UnchangedBesidesThreads == UNCHANGED <<segVars, image, det_call, seen, first_color>>

\* A thread enters get_color_for_label(label).
Call(t) ==
    /\ pc[t] = "idle"
    /\ t_calls[t] < MaxCalls
    /\ \E label \in Labels : t_label' = [t_label EXCEPT ![t] = label]
    /\ t_calls' = [t_calls EXCEPT ![t] = @ + 1]
    /\ pc' = [pc EXCEPT ![t] = "line38"]
    /\ UNCHANGED <<label_colors, t_color, t_returned, t_generated>>
    /\ UnchangedBesidesThreads

\* Line 38: if label not in DetectionUtils.label_colors
MembershipTest(t) ==
    /\ pc[t] = "line38"
    /\ pc' = [pc EXCEPT ![t] = IF NotCached(label_colors, t_label[t])
                                THEN "line39_generate" ELSE "line40"]
    /\ UNCHANGED <<label_colors, t_label, t_color, t_calls, t_returned, t_generated>>
    /\ UnchangedBesidesThreads

\* Line 39, right-hand side: DetectionUtils.generate_random_color()
Generate(t) ==
    /\ pc[t] = "line39_generate"
    /\ \E color \in Colors : t_color' = [t_color EXCEPT ![t] = color]
    /\ t_generated' = [t_generated EXCEPT ![t][t_label[t]] = @ + 1]
    /\ pc' = [pc EXCEPT ![t] = "line39_store"]
    /\ UNCHANGED <<label_colors, t_label, t_calls, t_returned>>
    /\ UnchangedBesidesThreads

\* Line 39, the store: DetectionUtils.label_colors[label] = <the color>
Store(t) ==
    /\ pc[t] = "line39_store"
    /\ label_colors' = StoreColor(label_colors, t_label[t], t_color[t])
    /\ pc' = [pc EXCEPT ![t] = "line40"]
    /\ UNCHANGED <<t_label, t_color, t_calls, t_returned, t_generated>>
    /\ UnchangedBesidesThreads

\* Line 40: return DetectionUtils.label_colors[label]
Return(t) ==
    /\ pc[t] = "line40"
    /\ t_returned' = t_returned \cup {<<t_label[t], label_colors[t_label[t]]>>}
    /\ pc' = [pc EXCEPT ![t] = "idle"]
    /\ t_color' = [t_color EXCEPT ![t] = NoColor]
    /\ UNCHANGED <<label_colors, t_label, t_calls, t_generated>>
    /\ UnchangedBesidesThreads

NextThreads ==
    \E t \in Threads :
        \/ Call(t)
        \/ MembershipTest(t)
        \/ Generate(t)
        \/ Store(t)
        \/ Return(t)

SpecThreads == InitThreads /\ [][NextThreads]_vars

\* ------------------------------------------------------------------ claims
\* Vocabulary of the claims about segmentation_map_to_image.

Categories == {segmentation.category_mask[p] : p \in 1..Len(segmentation.category_mask)}

PixelCount(v) ==
    Cardinality({p \in 1..Len(segmentation.category_mask) :
                    segmentation.category_mask[p] = v})

AllValid == \A v \in Categories : v < Len(segmentation.colored_labels)

\* The category index of an entry of colored_labels (the entries are distinct).
IndexOfLabel(l) ==
    CHOOSE i \in 0..(Len(segmentation.colored_labels) - 1) :
        At(segmentation.colored_labels, i) = l

\* C1: after segmentation_map_to_image returns, every flat pixel position p
\* of the mask image holds colored_labels[category_mask[p]].color.
C1_PixelHasColorOfItsCategory ==
    seg_status = "returned" =>
        \A p \in 1..Len(segmentation.category_mask) :
            seg_map_img.data[p] =
                At(segmentation.colored_labels, segmentation.category_mask[p]).color

\* C2: the returned label list holds exactly one entry per category present in
\* the mask, none for an absent category, in non-increasing pixel count order,
\* so its first entry is the label of a category with the maximum pixel count.
C2_LabelsExactlyPresentByDescendingCount ==
    seg_status = "returned" =>
        /\ Len(found_colored_labels) = Cardinality(Categories)
        /\ \A v \in Categories :
              Cardinality({k \in 1..Len(found_colored_labels) :
                  found_colored_labels[k] = At(segmentation.colored_labels, v)}) = 1
        /\ \A k \in 1..Len(found_colored_labels) :
              IndexOfLabel(found_colored_labels[k]) \in Categories
        /\ \A k \in 1..(Len(found_colored_labels) - 1) :
              PixelCount(IndexOfLabel(found_colored_labels[k]))
                  >= PixelCount(IndexOfLabel(found_colored_labels[k + 1]))
        /\ \A v \in Categories :
              PixelCount(IndexOfLabel(found_colored_labels[1])) >= PixelCount(v)

\* C2 witness: a returned list of at least two categories in which a larger
\* category index, having more pixels, comes before a smaller one.
C2_Witness ==
    /\ seg_status = "returned"
    /\ Len(found_colored_labels) >= 2
    /\ IndexOfLabel(found_colored_labels[1]) > IndexOfLabel(found_colored_labels[2])
    /\ PixelCount(IndexOfLabel(found_colored_labels[1]))
          > PixelCount(IndexOfLabel(found_colored_labels[2]))

\* C5: once segmentation_map_to_image has run, it failed with IndexError, and
\* returned neither image nor label list, exactly when some value of the mask
\* is not a valid index into colored_labels; otherwise it returned.
C5_IndexErrorIffInvalidIndex ==
    seg_status # "none" =>
        /\ (seg_status = "IndexError") <=> ~AllValid
        /\ (seg_status = "returned") <=> AllValid
        /\ seg_status = "IndexError" =>
              /\ seg_map_img = NoImage
              /\ found_colored_labels = <<>>

\* C5 witness: the call failed on a mask holding both valid and invalid values.
C5_Witness ==
    /\ seg_status = "IndexError"
    /\ \E v \in Categories : v < Len(segmentation.colored_labels)
    /\ \E v \in Categories : v >= Len(segmentation.colored_labels)

\* C8: the returned mask image has shape [height, width, 3], the shape of the
\* input image, also when width # height.
C8_MaskImageShapeIsHeightWidth ==
    seg_status = "returned" =>
        seg_map_img.shape = <<segmentation.height, segmentation.width, 3>>

\* C10: among categories with equal pixel counts the smaller category index
\* comes first in the returned label list.
C10_TiesBySmallerIndexFirst ==
    seg_status = "returned" =>
        \A j, k \in 1..Len(found_colored_labels) :
            ( /\ j < k
              /\ PixelCount(IndexOfLabel(found_colored_labels[j]))
                    = PixelCount(IndexOfLabel(found_colored_labels[k])) )
            => IndexOfLabel(found_colored_labels[j]) < IndexOfLabel(found_colored_labels[k])

\* C10 witness: a returned list with two categories of equal pixel count
\* behind a category with more pixels.
C10_Witness ==
    /\ seg_status = "returned"
    /\ Len(found_colored_labels) >= 3
    /\ PixelCount(IndexOfLabel(found_colored_labels[1]))
          > PixelCount(IndexOfLabel(found_colored_labels[2]))
    /\ PixelCount(IndexOfLabel(found_colored_labels[2]))
          = PixelCount(IndexOfLabel(found_colored_labels[3]))

\* C4: visualize called with a display mode other than "overlay" and
\* "side-by-side" ends in SystemExit with a message naming the mode; it returns
\* no image and no FPS text, border or legend entry has been drawn.
C4_UnsupportedModeExits ==
    ( /\ vis_call.op = "visualize"
      /\ vis_call.display_mode \notin {"overlay", "side-by-side"} )
    => /\ vis_result.status = "SystemExit"
       /\ vis_result.message =
             <<"ERROR: Unsupported display mode: ", vis_call.display_mode, ".">>
       /\ vis_result.shape = <<>>
       /\ vis_result.drawn = <<>>

\* C4 witness: a call with mode "bogus" on images of equal shape, with a legend
\* to draw, has ended in SystemExit.
C4_Witness ==
    /\ vis_call.op = "visualize"
    /\ vis_call.display_mode = "bogus"
    /\ vis_call.input_shape = vis_call.seg_shape
    /\ Len(found_colored_labels) >= 2
    /\ vis_result.status = "SystemExit"

\* C6: on an input image and a mask image of the same shape H x W, visualize
\* returns an image of height H and width 2W + 150 in side-by-side mode and of
\* height H and width W + 150 in overlay mode, whatever fps and colored_labels.
C6_OutputShape ==
    ( /\ vis_call.op = "visualize"
      /\ vis_call.input_shape = vis_call.seg_shape )
    => LET H == vis_call.input_shape[1]
           W == vis_call.input_shape[2]
       IN /\ vis_call.display_mode = "side-by-side" =>
                /\ vis_result.status = "returned"
                /\ vis_result.shape = <<H, 2 * W + _PADDING_WIDTH_FOR_LEGEND, 3>>
          /\ vis_call.display_mode = "overlay" =>
                /\ vis_result.status = "returned"
                /\ vis_result.shape = <<H, W + _PADDING_WIDTH_FOR_LEGEND, 3>>

\* C6 witness: a side-by-side call on two non-square images of equal shape,
\* with a positive fps and a legend of two entries, has returned.
C6_Witness ==
    /\ vis_call.op = "visualize"
    /\ vis_call.display_mode = "side-by-side"
    /\ vis_call.input_shape = vis_call.seg_shape
    /\ vis_call.input_shape[1] # vis_call.input_shape[2]
    /\ vis_call.fps > 0
    /\ Len(found_colored_labels) >= 2
    /\ vis_result.status = "returned"

\* C3: the cache's key set is exactly the set of labels seen so far, every
\* entry still holds the color assigned to its label the first time the label
\* was seen, and every call returned (or drew with) that color.
C3_CacheKeepsFirstColor ==
    /\ DOMAIN label_colors = seen
    /\ DOMAIN first_color = seen
    /\ \A l \in seen : label_colors[l] = first_color[l]
    /\ det_call.op = "get_color_for_label" => det_call.color = first_color[det_call.label]
    /\ det_call.op = "draw_bounding_boxes" =>
          \A k \in 1..Len(det_call.detections) :
              \A j \in {2 * k - 1, 2 * k} :
                  image.drawn[j].color = first_color[det_call.detections[k].label]

\* C3 witness: get_color_for_label returned for a label that was already
\* cached, while another label is cached with a different color.
C3_Witness ==
    /\ det_call.op = "get_color_for_label"
    /\ \E l \in seen : l # det_call.label /\ label_colors[l] # det_call.color
    /\ \E k \in 1..Len(image.drawn) :
          /\ image.drawn[k].op = "putText"
          /\ image.drawn[k].arg = det_call.label
          /\ image.drawn[k].color = det_call.color

\* C7: draw_bounding_boxes called with an empty detection list leaves the
\* image and the label -> color cache as they were.
C7_EmptyDetectionsChangeNothing ==
    ( /\ det_call.op = "draw_bounding_boxes"
      /\ det_call.detections = <<>> )
    => /\ image = det_call.input
       /\ label_colors = det_call.cache_before

\* C7 witness: an empty draw call on a frame, with every label cached.
C7_Witness ==
    /\ det_call.op = "draw_bounding_boxes"
    /\ det_call.detections = <<>>
    /\ image.frame \in Frames
    /\ DOMAIN label_colors = Labels

\* C9: with two threads in get_color_for_label, a color already returned for
\* a label differs from the color the cache holds for it only when two
\* different threads each generated a color for that label (both passed the
\* membership test before either stored), and no thread ever generates twice
\* for one label.
C9_StaleColorOnlyByRace ==
    /\ \A t \in Threads, l \in Labels : t_generated[t][l] <= 1
    /\ \A r \in t_returned :
          /\ r[1] \in DOMAIN label_colors
          /\ r[2] # label_colors[r[1]] =>
                Cardinality({t \in Threads : t_generated[t][r[1]] >= 1}) >= 2

\* C9 witness: a color returned for a label differs from the color the cache
\* holds for that label afterwards.
C9_Witness ==
    \E r \in t_returned :
        /\ r[1] \in DOMAIN label_colors
        /\ r[2] # label_colors[r[1]]
        /\ \A t \in Threads : pc[t] = "idle"

====
